---- MODULE Spec2Model ----
(***************************************************************************)
(* Model of app/gunicorn.conf.py: the module is executed once at process   *)
(* start (Load), reading GUNICORN_WORKERS and GUNICORN_THREADS from the    *)
(* environment, and afterwards the hosting server invokes the three hooks  *)
(* when_ready, worker_int and worker_abort.                                *)
(*                                                                         *)
(* Strings that the code inspects character by character (environment      *)
(* values) are sequences of one-character strings; log messages are        *)
(* sequences of words.                                                     *)
(***************************************************************************)
EXTENDS Integers, Sequences, FiniteSets, TLC

VARIABLES environ, cpus, pc, error, config, serverLog, workerLog, calls, retval

vars == <<environ, cpus, pc, error, config, serverLog, workerLog, calls, retval>>

\* ---------------------------------------------------------------- bounds
\* Largest detected CPU count (0 stands for "cannot be determined").
MaxCpu == 2
\* Total number of characters in the two environment values.
MaxEnvChars == 3
\* Total number of hook invocations.
MaxCalls == 3

\* Characters the environment values are drawn from.
Alphabet == {"0", "4", "8", "-", "+", "_", " ", "a"}

\* ------------------------------------------------------- python built-ins
Keys == {"GUNICORN_WORKERS", "GUNICORN_THREADS"}

None == [type |-> "NoneType"]

\* No function has returned yet.
NoCall == [type |-> "NoCall"]

Digits == {"0", "1", "2", "3", "4", "5", "6", "7", "8", "9"}

DigitValue ==
    ("0" :> 0) @@ ("1" :> 1) @@ ("2" :> 2) @@ ("3" :> 3) @@ ("4" :> 4) @@
    ("5" :> 5) @@ ("6" :> 6) @@ ("7" :> 7) @@ ("8" :> 8) @@ ("9" :> 9)

Whitespace == {" ", "\t", "\n", "\r"}

\* str.strip(): drop leading and trailing whitespace.
Strip(s) ==
    LET keep == {i \in 1..Len(s) : s[i] \notin Whitespace}
    IN  IF keep = {} THEN <<>>
        ELSE LET lo == CHOOSE i \in keep : \A j \in keep : i <= j
                 hi == CHOOSE i \in keep : \A j \in keep : j <= i
             IN  SubSeq(s, lo, hi)

\* The digit scan of int(str): left to right, acc*10 + digit; an underscore
\* is legal only between two digits.  prev is "start", "digit" or "_".
RECURSIVE ScanDigits(_, _, _, _)
ScanDigits(s, i, acc, prev) ==
    IF i > Len(s)
    THEN [ok |-> prev = "digit", val |-> acc]
    ELSE IF s[i] \in Digits
         THEN ScanDigits(s, i + 1, acc * 10 + DigitValue[s[i]], "digit")
         ELSE IF s[i] = "_" /\ prev = "digit"
              THEN ScanDigits(s, i + 1, acc, "_")
              ELSE [ok |-> FALSE, val |-> 0]

\* A variant that drops the sign.
ParseInt_unsigned(s) ==
    LET t == Strip(s)
        signed == t # <<>> /\ t[1] \in {"+", "-"}
        body == IF signed THEN Tail(t) ELSE t
        r == ScanDigits(body, 1, 0, "start")
    IN  IF ~r.ok THEN [ok |-> FALSE, val |-> 0] ELSE [ok |-> TRUE, val |-> r.val]

\* int(x) for a str x: strip, optional sign, digits.  ok = FALSE is ValueError.
ParseInt(s) ==
    LET t == Strip(s)
        signed == t # <<>> /\ t[1] \in {"+", "-"}
        body == IF signed THEN Tail(t) ELSE t
        r == ScanDigits(body, 1, 0, "start")
    IN  IF ~r.ok THEN [ok |-> FALSE, val |-> 0]
        ELSE [ok |-> TRUE,
              val |-> IF signed /\ t[1] = "-" THEN 0 - r.val ELSE r.val]

\* A variant that yields 0 for a string that is no integer instead of raising.
int_lenient(x) ==
    IF x.type = "int" THEN [ok |-> TRUE, val |-> x.val]
    ELSE IF ParseInt(x.val).ok THEN ParseInt(x.val) ELSE [ok |-> TRUE, val |-> 0]

\* int(x): an int is returned as it is, a str is parsed.
int(x) ==
    IF x.type = "int" THEN [ok |-> TRUE, val |-> x.val] ELSE ParseInt(x.val)

\* A variant in the style of "os.getenv(key) or default": an empty value
\* counts as unset.
os_getenv_or_default(env, key, default) ==
    IF key \in DOMAIN env /\ env[key] # <<>>
    THEN [type |-> "str", val |-> env[key]]
    ELSE [type |-> "int", val |-> default]

\* os.getenv(key, default): the value when the key is in the environment
\* (the empty string included), the default otherwise.
os_getenv(env, key, default) ==
    IF key \in DOMAIN env
    THEN [type |-> "str", val |-> env[key]]
    ELSE [type |-> "int", val |-> default]

\* ------------------------------------------------------------ the module
\* A variant without the extra worker.
default_workers_even(n) == n * 2

\* The default argument of line 9: multiprocessing.cpu_count() * 2 + 1.
default_workers(n) == n * 2 + 1

\* The default argument of line 11.
default_threads == 2

\* Line 9: int(os.getenv("GUNICORN_WORKERS", multiprocessing.cpu_count() * 2 + 1))
workers_value(env, n) == int(os_getenv(env, "GUNICORN_WORKERS", default_workers(n)))

\* A variant that reads the wrong variable.
threads_value_from_workers(env) ==
    int(os_getenv(env, "GUNICORN_WORKERS", default_threads))

\* Line 11: int(os.getenv("GUNICORN_THREADS", 2))
threads_value(env) == int(os_getenv(env, "GUNICORN_THREADS", default_threads))

\* The options assigned from literals, lines 5-36 without lines 9 and 11.
literal_options ==
    [bind |-> "0.0.0.0:5000",
     backlog |-> 2048,
     worker_class |-> "gthread",
     worker_connections |-> 1000,
     timeout |-> 30,
     keepalive |-> 2,
     limit_request_line |-> 4096,
     limit_request_fields |-> 100,
     limit_request_field_size |-> 8190,
     proc_name |-> "fastfood_gunicorn",
     daemon |-> FALSE,
     pidfile |-> None,
     umask |-> 0,
     user |-> None,
     group |-> None,
     tmp_upload_dir |-> None,
     accesslog |-> "-",
     errorlog |-> "-",
     loglevel |-> "info",
     access_log_format |->
        "%(h)s %(l)s %(u)s %(t)s \"%(r)s\" %(s)s %(b)s \"%(f)s\" \"%(a)s\""]

\* A variant that reuses the thread count as the keep-alive time.
module_namespace_keepalive(w, t) ==
    [workers |-> w, threads |-> t] @@ [literal_options EXCEPT !.keepalive = t]

\* The module's namespace once every assignment has run.
module_namespace(w, t) == [workers |-> w, threads |-> t] @@ literal_options

\* The namespace before the module has run.
NoConfig == [n \in {} |-> 0]

\* Executing the module top to bottom.  The default of line 9 is an argument,
\* so cpu_count() is called whether or not GUNICORN_WORKERS is set, and it
\* raises NotImplementedError when the count cannot be determined (n = 0).
LoadModule(env, n) ==
    IF n = 0
    THEN [ok |-> FALSE, error |-> "NotImplementedError", config |-> NoConfig]
    ELSE LET w == workers_value(env, n)
             t == threads_value(env)
         IN  IF ~w.ok \/ ~t.ok
             THEN [ok |-> FALSE, error |-> "ValueError", config |-> NoConfig]
             ELSE [ok |-> TRUE, error |-> "none",
                   config |-> module_namespace(w.val, t.val)]

\* ------------------------------------------------------------- log lines
ReadyMsg == <<"FastFood", "Ordering", "System", "is", "ready", "to", "serve", "requests">>

IntMsg == <<"Worker", "received", "INT", "or", "QUIT", "signal">>

AbortMsg == <<"Worker", "received", "SIGABRT", "signal">>

\* log.info(msg): one record at level info.
log_info(log, msg) == Append(log, [level |-> "info", msg |-> msg])

TotalCalls == calls.when_ready + calls.worker_int + calls.worker_abort

\* ------------------------------------------------------------ the system
Env(setW, w, setT, t) ==
    [k \in ({"GUNICORN_WORKERS" : x \in {1} \cap (IF setW THEN {1} ELSE {})}
            \cup {"GUNICORN_THREADS" : x \in {1} \cap (IF setT THEN {1} ELSE {})})
        |-> IF k = "GUNICORN_WORKERS" THEN w ELSE t]

Init ==
    /\ \E setW, setT \in BOOLEAN :
       \E lw \in 0..MaxEnvChars :
       \E lt \in 0..(MaxEnvChars - lw) :
       \E w \in [1..lw -> Alphabet], t \in [1..lt -> Alphabet] :
          /\ setW \/ lw = 0
          /\ setT \/ lt = 0
          /\ environ = Env(setW, w, setT, t)
    /\ cpus \in 0..MaxCpu
    /\ pc = "start"
    /\ error = "none"
    /\ config = NoConfig
    /\ serverLog = <<>>
    /\ workerLog = <<>>
    /\ calls = [when_ready |-> 0, worker_int |-> 0, worker_abort |-> 0]
    /\ retval = NoCall

\* The server imports the configuration module.
Load ==
    /\ pc = "start"
    /\ LET r == LoadModule(environ, cpus)
       IN  /\ pc' = IF r.ok THEN "loaded" ELSE "crashed"
           /\ error' = r.error
           /\ config' = r.config
    /\ UNCHANGED <<environ, cpus, serverLog, workerLog, calls, retval>>

\* A variant that logs at level warning.
when_ready_warning ==
    /\ pc = "loaded"
    /\ TotalCalls < MaxCalls
    /\ serverLog' = Append(serverLog, [level |-> "warning", msg |-> ReadyMsg])
    /\ calls' = [calls EXCEPT !.when_ready = @ + 1]
    /\ retval' = None
    /\ UNCHANGED <<environ, cpus, pc, error, config, workerLog>>

when_ready ==
    /\ pc = "loaded"
    /\ TotalCalls < MaxCalls
    /\ serverLog' = log_info(serverLog, ReadyMsg)
    /\ calls' = [calls EXCEPT !.when_ready = @ + 1]
    /\ retval' = None
    /\ UNCHANGED <<environ, cpus, pc, error, config, workerLog>>

\* A variant that takes the interrupted worker out of the configured count.
worker_int_shrinks ==
    /\ pc = "loaded"
    /\ TotalCalls < MaxCalls
    /\ workerLog' = log_info(workerLog, IntMsg)
    /\ calls' = [calls EXCEPT !.worker_int = @ + 1]
    /\ retval' = None
    /\ config' = [config EXCEPT !.workers = @ - 1]
    /\ UNCHANGED <<environ, cpus, pc, error, serverLog>>

worker_int ==
    /\ pc = "loaded"
    /\ TotalCalls < MaxCalls
    /\ workerLog' = log_info(workerLog, IntMsg)
    /\ calls' = [calls EXCEPT !.worker_int = @ + 1]
    /\ retval' = None
    /\ UNCHANGED <<environ, cpus, pc, error, config, serverLog>>

\* A variant that logs the interrupt message.
worker_abort_int_message ==
    /\ pc = "loaded"
    /\ TotalCalls < MaxCalls
    /\ workerLog' = log_info(workerLog, IntMsg)
    /\ calls' = [calls EXCEPT !.worker_abort = @ + 1]
    /\ retval' = None
    /\ UNCHANGED <<environ, cpus, pc, error, config, serverLog>>

worker_abort ==
    /\ pc = "loaded"
    /\ TotalCalls < MaxCalls
    /\ workerLog' = log_info(workerLog, AbortMsg)
    /\ calls' = [calls EXCEPT !.worker_abort = @ + 1]
    /\ retval' = None
    /\ UNCHANGED <<environ, cpus, pc, error, config, serverLog>>

Next == Load \/ when_ready \/ worker_int \/ worker_abort

Spec == Init /\ [][Next]_vars

\* ------------------------------------------------------------ properties
IsSet(k) == k \in DOMAIN environ

Last(q) == q[Len(q)]

\* An optional sign followed by one or more decimal digits.
DecimalIntegerString(s) ==
    LET first == IF s # <<>> /\ s[1] \in {"+", "-"} THEN 2 ELSE 1
    IN  /\ first <= Len(s)
        /\ \A i \in first..Len(s) : s[i] \in Digits

\* What int() accepts: whitespace, an optional sign, then digits, single
\* underscores allowed between digits, then whitespace.
NumericIntegerString(s) ==
    \E a, b \in 1..Len(s) :
        /\ a <= b
        /\ \A i \in 1..(a - 1) : s[i] \in Whitespace
        /\ \A i \in (b + 1)..Len(s) : s[i] \in Whitespace
        /\ LET first == IF s[a] \in {"+", "-"} THEN a + 1 ELSE a
           IN  /\ first <= b
               /\ s[first] \in Digits
               /\ s[b] \in Digits
               /\ \A i \in first..b : s[i] \in Digits \cup {"_"}
               /\ \A i \in first..(b - 1) : ~(s[i] = "_" /\ s[i + 1] = "_")

RECURSIVE Pow10(_)
Pow10(k) == IF k = 0 THEN 1 ELSE 10 * Pow10(k - 1)

RECURSIVE PlaceSum(_, _)
PlaceSum(d, i) ==
    IF i > Len(d) THEN 0
    ELSE DigitValue[d[i]] * Pow10(Len(d) - i) + PlaceSum(d, i + 1)

IsDigit(c) == c \in Digits

\* The integer a numeric string denotes: its digits by place value, negated
\* when the string carries a minus sign.
IntegerValue(s) ==
    LET mag == PlaceSum(SelectSeq(s, IsDigit), 1)
    IN  IF \E i \in 1..Len(s) : s[i] = "-" THEN 0 - mag ELSE mag

\* The words of phrase occur consecutively in msg.
ContainsWords(msg, phrase) ==
    \E i \in 1..(Len(msg) - Len(phrase) + 1) :
        SubSeq(msg, i, i + Len(phrase) - 1) = phrase

\* log' is log with exactly one record added at the end.
OneRecordAppended(log, log2) ==
    /\ Len(log2) = Len(log) + 1
    /\ SubSeq(log2, 1, Len(log)) = log

\* C1: with neither GUNICORN_WORKERS nor GUNICORN_THREADS in the environment
\* and a detected CPU count n >= 1, loading succeeds with workers = 2n + 1
\* and threads = 2.
C1_Defaults ==
    (pc # "start" /\ cpus >= 1 /\ ~IsSet("GUNICORN_WORKERS") /\ ~IsSet("GUNICORN_THREADS"))
        => /\ pc = "loaded"
           /\ config.workers = 2 * cpus + 1
           /\ config.threads = 2

C1_Witness ==
    /\ pc = "loaded"
    /\ DOMAIN environ = {}
    /\ cpus = 2
    /\ config.workers = 5
    /\ config.threads = 2

\* C2: when both variables are set to decimal integer strings w and t,
\* loading succeeds with workers and threads equal to the integers w and t
\* denote, whatever CPU count was detected.
C2_Overrides ==
    (/\ pc # "start"
     /\ cpus >= 1
     /\ IsSet("GUNICORN_WORKERS") /\ IsSet("GUNICORN_THREADS")
     /\ DecimalIntegerString(environ["GUNICORN_WORKERS"])
     /\ DecimalIntegerString(environ["GUNICORN_THREADS"]))
        => /\ pc = "loaded"
           /\ config.workers = IntegerValue(environ["GUNICORN_WORKERS"])
           /\ config.threads = IntegerValue(environ["GUNICORN_THREADS"])

C2_Witness ==
    /\ pc = "loaded"
    /\ DOMAIN environ = Keys
    /\ environ["GUNICORN_WORKERS"] = <<"4">>
    /\ environ["GUNICORN_THREADS"] = <<"8">>
    /\ config.workers = 4
    /\ config.threads = 8

\* C3: a call of when_ready adds exactly one record to the server's log, at
\* level info, with a message containing "ready to serve requests", and adds
\* nothing to any other log.
C3_ReadyLogsOnce ==
    [][calls'.when_ready # calls.when_ready
        => /\ OneRecordAppended(serverLog, serverLog')
           /\ Last(serverLog').level = "info"
           /\ ContainsWords(Last(serverLog').msg, <<"ready", "to", "serve", "requests">>)
           /\ workerLog' = workerLog]_vars

C3_Witness ==
    /\ calls.when_ready = 2
    /\ Len(serverLog) = 2
    /\ serverLog[2].level = "info"

\* C4: a call of worker_int or of worker_abort adds exactly one record to the
\* worker's log and none to the server's; the interrupt message, the abort
\* message and the ready message are pairwise different.
C4_WorkerHooksLogOnce ==
    /\ [][(calls'.worker_int # calls.worker_int \/ calls'.worker_abort # calls.worker_abort)
            => /\ OneRecordAppended(workerLog, workerLog')
               /\ serverLog' = serverLog]_vars
    /\ [](/\ Cardinality({workerLog[i].msg : i \in 1..Len(workerLog)})
                = Cardinality({h \in {"worker_int", "worker_abort"} : calls[h] > 0})
          /\ \A i \in 1..Len(workerLog) : \A j \in 1..Len(serverLog) :
                workerLog[i].msg # serverLog[j].msg)

C4_Witness ==
    /\ calls.when_ready = 1
    /\ calls.worker_int = 1
    /\ calls.worker_abort = 1
    /\ Len(workerLog) = 2
    /\ workerLog[1].msg # workerLog[2].msg

\* C5: every loaded configuration has threads > 0 and workers > 0.
C5_PositiveCounts ==
    pc = "loaded" => (config.threads > 0 /\ config.workers > 0)

\* C6: when a variable is set to a value that is no integer string, loading
\* crashes with no configuration: no fallback to the default, and no error
\* other than the failed conversion once the CPU count is known.
C6_NonNumericCrashes ==
    (pc # "start" /\ \E k \in DOMAIN environ : ~NumericIntegerString(environ[k]))
        => /\ pc = "crashed"
           /\ config = NoConfig
           /\ cpus >= 1 => error = "ValueError"

C6_Witness ==
    /\ pc = "crashed"
    /\ cpus >= 1
    /\ error = "ValueError"
    /\ DOMAIN environ = Keys
    /\ environ["GUNICORN_WORKERS"] = <<"4">>
    /\ environ["GUNICORN_THREADS"] = <<"a">>

\* C7: the fixed options of a loaded configuration have their literal values
\* whatever the environment holds.
C7_FixedOptions ==
    pc = "loaded"
        => /\ config.bind = "0.0.0.0:5000"
           /\ config.backlog = 2048
           /\ config.worker_connections = 1000
           /\ config.timeout = 30
           /\ config.keepalive = 2
           /\ config.limit_request_line = 4096
           /\ config.limit_request_fields = 100
           /\ config.limit_request_field_size = 8190
           /\ config.accesslog = "-"
           /\ config.errorlog = "-"
           /\ config.loglevel = "info"

C7_Witness ==
    /\ pc = "loaded"
    /\ DOMAIN environ = Keys
    /\ config.workers = 4
    /\ config.threads = 8
    /\ config.keepalive = 2
    /\ config.bind = "0.0.0.0:5000"

\* C8: once the module has run, no step changes the configuration or the
\* load outcome; each hook returns None, and every call of a hook logs the
\* one record its first call logged.
C8_ReadOnlyAfterLoad ==
    /\ [][pc # "start" => (config' = config /\ pc' = pc /\ error' = error)]_vars
    /\ [](/\ Len(serverLog) = calls.when_ready
          /\ \A i \in 1..Len(serverLog) : serverLog[i] = serverLog[1]
          /\ Len(workerLog) = calls.worker_int + calls.worker_abort
          /\ Cardinality({workerLog[i] : i \in 1..Len(workerLog)})
                <= Cardinality({h \in {"worker_int", "worker_abort"} : calls[h] > 0})
          /\ TotalCalls > 0 => retval = None)

C8_Witness ==
    /\ pc = "loaded"
    /\ calls.worker_int = 2
    /\ calls.when_ready = 1
    /\ workerLog[1] = workerLog[2]
    /\ config.workers = 2 * cpus + 1
    /\ retval = None

\* C9: workers is determined by GUNICORN_WORKERS and the CPU count alone and
\* threads by GUNICORN_THREADS alone; a variable that is not set leaves its
\* option at the default whatever the other variable holds.
C9_Independent ==
    pc = "loaded"
        => /\ config.workers =
                IF IsSet("GUNICORN_WORKERS")
                THEN IntegerValue(environ["GUNICORN_WORKERS"])
                ELSE 2 * cpus + 1
           /\ config.threads =
                IF IsSet("GUNICORN_THREADS")
                THEN IntegerValue(environ["GUNICORN_THREADS"])
                ELSE 2

C9_Witness ==
    /\ pc = "loaded"
    /\ DOMAIN environ = {"GUNICORN_WORKERS"}
    /\ environ["GUNICORN_WORKERS"] = <<"8">>
    /\ config.workers = 8
    /\ config.threads = 2

\* C10: a variable set to the empty string is not treated as unset: loading
\* crashes instead of using the default.
C10_EmptyIsNotUnset ==
    (pc # "start" /\ \E k \in DOMAIN environ : environ[k] = <<>>)
        => (pc = "crashed" /\ config = NoConfig)

C10_Witness ==
    /\ pc = "crashed"
    /\ cpus >= 1
    /\ error = "ValueError"
    /\ DOMAIN environ = {"GUNICORN_THREADS"}
    /\ environ["GUNICORN_THREADS"] = <<>>

====
